---- MODULE Spec2Model ----
(***************************************************************************)
(* Model of src/test-runner.ts: the two end-to-end test runners of the     *)
(* fresh-scaffold repository.                                              *)
(*                                                                         *)
(*  - the simple runner  (lines 1-88):   runTests, waitForServer(1000 ms)  *)
(*  - the flexible runner (lines 90-286): main, cleanup, sigHandler,       *)
(*    waitForServer (backoff), the command resolver                        *)
(*                                                                         *)
(* The supervisor is a single JavaScript event loop: one action of the     *)
(* model is the synchronous code run between two suspension points         *)
(* (awaits).  The build, server and test children and the operator's       *)
(* signals are the environment.                                            *)
(***************************************************************************)
EXTENDS Integers, Sequences, FiniteSets, TLC

(***************************************************************************)
(* Bounds of the model.                                                    *)
(***************************************************************************)
\* how many SIGINT/SIGTERM the operator delivers in one run
MaxSignals == 2
\* cap on the attempt counter of waitForServer (never reached by the timeouts used)
MaxAttempt == 30

(***************************************************************************)
(* Program constants.                                                      *)
(***************************************************************************)
BaseDelayMs == 200
CapDelayMs == 2000
GrowthNum == 5
GrowthDen == 4
GraceMs == 5000
KillPauseMs == 200
DefaultTimeoutMs == 30000
SimpleDelayMs == 1000
SERVER_TIMEOUT == 30000

(***************************************************************************)
(* Strings are sequences of chunks: a chunk is the blank " " or a run of   *)
(* non-blank characters.  A token of a parsed command is a non-empty       *)
(* sequence of non-blank chunks.                                           *)
(***************************************************************************)
IsSpace(c) == c = " "

RECURSIVE TrimStart(_)
TrimStart(s) ==
  IF s = <<>> THEN <<>>
  ELSE IF IsSpace(Head(s)) THEN TrimStart(Tail(s)) ELSE s

RECURSIVE TrimEnd(_)
TrimEnd(s) ==
  IF s = <<>> THEN <<>>
  ELSE IF IsSpace(s[Len(s)]) THEN TrimEnd(SubSeq(s, 1, Len(s) - 1)) ELSE s

\* String.prototype.trim
Trim(s) == TrimEnd(TrimStart(s))

\* raw.split(/\s+/): the pieces between maximal runs of blanks (empty pieces
\* appear at a leading or trailing run and for the empty string)
RECURSIVE SplitWs(_, _, _)
SplitWs(s, cur, inSpace) ==
  IF s = <<>> THEN <<cur>>
  ELSE IF IsSpace(Head(s))
       THEN IF inSpace THEN SplitWs(Tail(s), cur, TRUE)
            ELSE <<cur>> \o SplitWs(Tail(s), <<>>, TRUE)
       ELSE SplitWs(Tail(s), Append(cur, Head(s)), FALSE)

\* .filter(Boolean): drops the empty pieces
RECURSIVE FilterNonEmpty(_)
FilterNonEmpty(ps) ==
  IF ps = <<>> THEN <<>>
  ELSE IF Head(ps) = <<>> THEN FilterNonEmpty(Tail(ps))
       ELSE <<Head(ps)>> \o FilterNonEmpty(Tail(ps))

parseCmd(raw) == FilterNonEmpty(SplitWs(raw, <<>>, FALSE))

(***************************************************************************)
(* Configuration: Deno.env.  A variable is unset, or set to a string.      *)
(***************************************************************************)
Unset == [set |-> FALSE, val |-> <<>>]
SetTo(s) == [set |-> TRUE, val |-> s]

DefaultBuild == <<"deno", " ", "run", " ", "-A", " ", "dev.ts", " ", "build">>
DefaultServe == <<"deno", " ", "serve", " ", "-A", " ", "_fresh/server.js">>
DefaultTask == <<>>
DefaultTest == <<"deno", " ", "task", " ", "test:e2e">>

\* the values a command variable takes in the model
CmdEnvValues == {Unset, SetTo(<<" ">>), SetTo(<<" ", "x", " ", "y">>)}
TestEnvValues == {Unset, SetTo(<<" ">>)}
\* the values of SERVER_TIMEOUT_MS
TimeoutEnvValues == {[set |-> FALSE, val |-> 0], [set |-> TRUE, val |-> 1000]}

VARIABLES
  environ,        \* Deno.env: BUILD_CMD, SERVE_CMD, TASK_CMD, TEST_CMD
  envTimeout,     \* Deno.env: SERVER_TIMEOUT_MS
  latencyMs,      \* round trip of one readiness probe in this run
  pc,             \* position of the main flow (main / runTests)
  listeners,      \* SIGINT/SIGTERM listeners installed
  serverChild,    \* the module-level handle: "null" or "child"
  cleaned,        \* the module-level flag
  cleanPc,        \* position of the cleanup that runs the termination sequence
  cleanCode,      \* exit code given to that cleanup
  cleanElapsed,   \* ms spent in the termination sequence so far
  supState,       \* "running", "exited" (Deno.exit or end of script),
                  \* "crashed" (uncaught exception), "killed" (signal, no listener)
  exitCode,       \* the supervisor's exit code once it has exited
  buildState,     \* "none", "running", "ok", "failed"
  srvState,       \* "none", "running", "exited"
  srvIgnoresTerm, \* the server ignores SIGTERM
  srvReadyAt,     \* ms after the start of waitForServer at which the server answers; -1: never
  termsSent,      \* SIGTERMs the supervisor delivered to the server
  killSent,       \* SIGKILL delivered to the server
  staleKills,     \* Deno.kill(pid, "SIGKILL") calls made after the server had exited
  testState,      \* "none", "running", "passed", "failed"
  now,            \* time since waitForServer recorded its start
  attempt,        \* waitForServer's attempt counter
  probes,         \* probes issued
  probeAt,        \* ms at which the probe in flight was issued
  wfs,            \* waitForServer's outcome: "none", "running", "ready", "timeout"
  signals,        \* signals delivered to the supervisor
  hist            \* history of the run (what happened, in which order)

cfgVars == <<environ, envTimeout, latencyMs>>
supVars == <<pc, listeners, serverChild, cleaned, cleanPc, cleanCode, cleanElapsed,
             supState, exitCode>>
envVars == <<buildState, srvState, srvIgnoresTerm, srvReadyAt, termsSent, killSent,
             staleKills, testState>>
wfsVars == <<now, attempt, probes, probeAt, wfs>>
vars == <<cfgVars, supVars, envVars, wfsVars, signals, hist>>

(***************************************************************************)
(* The command resolver (lines 109-130).                                   *)
(***************************************************************************)
\* const env = (k, d = "") => Deno.env.get(k) ?? d
env(k, d) == IF environ[k].set THEN environ[k].val ELSE d

BUILD_CMD_RAW == Trim(env("BUILD_CMD", DefaultBuild))
SERVE_CMD_RAW == Trim(env("SERVE_CMD", DefaultServe))
TASK_CMD_RAW == env("TASK_CMD", DefaultTask)
TEST_CMD_RAW == env("TEST_CMD", DefaultTest)

\* Boolean(s) of a string: non-empty
Truthy(s) == s # <<>>

directMode == Truthy(BUILD_CMD_RAW) \/ Truthy(SERVE_CMD_RAW)

\* undefined is modelled as the empty command <<>>, told apart by HasBuild/HasServe
HasBuild == Truthy(BUILD_CMD_RAW)
HasServe == Truthy(SERVE_CMD_RAW)
BUILD_CMD == IF HasBuild THEN parseCmd(BUILD_CMD_RAW) ELSE <<>>
SERVE_CMD == IF HasServe THEN parseCmd(SERVE_CMD_RAW) ELSE <<>>
TASK_CMD == parseCmd(TASK_CMD_RAW)
TEST_CMD == parseCmd(TEST_CMD_RAW)

\* Number(env("SERVER_TIMEOUT_MS", "30000"))
SERVER_TIMEOUT_MS == IF envTimeout.set THEN envTimeout.val ELSE DefaultTimeoutMs


(***************************************************************************)
(* Time.  A time is [ms, fr]: whole milliseconds plus fr / FracPerMs of a  *)
(* millisecond, so that 200 * 1.25^n is represented exactly for n <= 11;   *)
(* beyond that the value is above the cap and is its exact value rounded   *)
(* down to 1 / FracPerMs ms.                                               *)
(***************************************************************************)
FracPerMs == 2^19

Ms(n) == [ms |-> n, fr |-> 0]

TAdd(a, b) ==
  LET f == a.fr + b.fr
  IN  [ms |-> a.ms + b.ms + (f \div FracPerMs), fr |-> f % FracPerMs]

TLeq(a, b) == a.ms < b.ms \/ (a.ms = b.ms /\ a.fr <= b.fr)

\* Math.min
TMin(a, b) == IF TLeq(a, b) THEN a ELSE b

\* The powers are computed exactly on [ms, a, b, c]: whole milliseconds and
\* three fraction limbs, a / Limb + b / Limb^2 + c / Limb^3 of a millisecond
\* (200 * 1.25^n has 2n - 3 fraction bits).
Limb == 2^20

\* w * num / den, den < Limb
WScale(w, num, den) ==
  LET tm == w.ms * num
      ta == (tm % den) * Limb + w.a * num
      tb == (ta % den) * Limb + w.b * num
      tc == (tb % den) * Limb + w.c * num
      qc == tc \div den
      qb == (tb \div den) + (qc \div Limb)
      qa == (ta \div den) + (qb \div Limb)
  IN  [ms |-> (tm \div den) + (qa \div Limb),
       a |-> qa % Limb, b |-> qb % Limb, c |-> qc % Limb]

RECURSIVE UncappedWide(_)
UncappedWide(n) ==
  IF n = 0 THEN [ms |-> BaseDelayMs, a |-> 0, b |-> 0, c |-> 0]
  ELSE \* the singleton binds u to a value, so the power is computed once
       CHOOSE r \in {WScale(u, GrowthNum, GrowthDen) : u \in {UncappedWide(n - 1)}} : TRUE

\* 200 * Math.pow(1.25, n)
Uncapped(n) ==
  CHOOSE t \in {[ms |-> w.ms, fr |-> w.a \div (Limb \div FracPerMs)] :
                  w \in {UncappedWide(n)}} : TRUE

\* the powers for every value the attempt counter takes, computed once
UncappedUpTo == [n \in 0..MaxAttempt |-> Uncapped(n)]

\* BackoffWait without the cap
BackoffWaitUncapped(n) == UncappedUpTo[n]

\* const wait = Math.min(200 * Math.pow(1.25, attempt), 2000)   (line 163)
BackoffWait(n) == TMin(UncappedUpTo[n], Ms(CapDelayMs))

\* Date.now() - start: whole milliseconds
Elapsed(t) == t.ms

(***************************************************************************)
(* Spawning (lines 132-139).  new Deno.Command(cmd[0], ...).spawn() throws *)
(* for an empty command and may throw for any other (executable not found, *)
(* permission denied).  TRUE: the child was spawned.                       *)
(***************************************************************************)
spawnChild(cmd) == IF cmd = <<>> THEN {FALSE} ELSE {TRUE, FALSE}

(***************************************************************************)
(* History of a run.                                                       *)
(***************************************************************************)
InitHist ==
  [ trigger   |-> "none",   \* what the first cleanup invocation was called for
    calls     |-> 0,        \* invocations of cleanup
    mainCalls |-> 0,        \* of these, by the main flow
    mainCode  |-> -1,       \* the exit code the main flow passed to cleanup
    threw     |-> FALSE,    \* a spawn threw inside main's try block
    seq       |-> 0,        \* times the termination sequence was entered
    exitBy    |-> "none",   \* "first": the invocation that ran the sequence;
                            \* "repeat": an invocation that found cleaned set
    raceWon   |-> "none",   \* "status" or "timer"
    lateTest  |-> FALSE,    \* the test process was spawned after cleaned was set
    unheard   |-> FALSE,    \* a child was spawned while no listener was installed
    stray     |-> FALSE,    \* SIGKILL reached a process that is not the server
    lateExit  |-> FALSE ]   \* the server was still running when line 206 awaited
                            \* its status

(***************************************************************************)
(* cleanup (lines 174-217).                                                *)
(***************************************************************************)
\* Deno.exit(code) reached by the invocation that ran the termination sequence
ExitFirst(code, h) ==
  /\ supState' = "exited"
  /\ exitCode' = code
  /\ cleanPc' = "done"
  /\ hist' = [h EXCEPT !.exitBy = "first"]

\* lines 192-204 once Promise.race has resolved with the server already exited:
\* Deno.kill(pid, "SIGKILL") throws (no such process) and cleanup goes on to
\* the await of line 206, or it reaches whatever process now holds the pid and
\* the 200 ms pause follows
AfterRaceExited(h) ==
  /\ staleKills' = staleKills + 1
  /\ killSent' = killSent
  /\ UNCHANGED <<supState, exitCode>>
  /\ \/ /\ cleanPc' = "final"
        /\ hist' = [h EXCEPT !.raceWon = "status"]
     \/ /\ cleanPc' = "pause"
        /\ hist' = [h EXCEPT !.raceWon = "status", !.stray = TRUE]

\* the first invocation, lines 178-190
cleanupFirst(code, why, byMain, h) ==
  LET h1 == [h EXCEPT !.trigger = why, !.calls = @ + 1,
                      !.mainCalls = @ + (IF byMain THEN 1 ELSE 0),
                      !.mainCode = IF byMain THEN code ELSE @]
  IN
  /\ cleaned' = TRUE
  /\ cleanCode' = code
  /\ IF serverChild = "null"
     THEN /\ ExitFirst(code, h1)
          /\ UNCHANGED <<termsSent, killSent, staleKills, cleanElapsed>>
     ELSE \* SIGTERM is delivered, or kill("SIGTERM") throws (ignored) because
          \* the server has exited; await Promise.race([status, 5000 ms])
          /\ termsSent' = termsSent + (IF srvState = "running" THEN 1 ELSE 0)
          /\ cleanPc' = "race"
          /\ cleanElapsed' = 0
          /\ hist' = [h1 EXCEPT !.seq = @ + 1]
          /\ UNCHANGED <<killSent, staleKills, supState, exitCode>>

\* an invocation that finds cleaned set, lines 175-177
cleanupRepeat(code, byMain, h) ==
  /\ supState' = "exited"
  /\ exitCode' = code
  /\ hist' = [h EXCEPT !.calls = @ + 1,
                       !.mainCalls = @ + (IF byMain THEN 1 ELSE 0),
                       !.mainCode = IF byMain THEN code ELSE @,
                       !.exitBy = "repeat"]
  /\ UNCHANGED <<cleaned, cleanCode, cleanPc, cleanElapsed, termsSent, killSent, staleKills>>

\* cleanup without the guard of lines 175-177
cleanupUnguarded(code, why, byMain, h) == cleanupFirst(code, why, byMain, h)

cleanup(code, why, byMain, h) ==
  IF cleaned THEN cleanupRepeat(code, byMain, h) ELSE cleanupFirst(code, why, byMain, h)


(***************************************************************************)
(* The environment's inputs.                                               *)
(***************************************************************************)
\* ms after which the server answers probes; -1: never
ReadyDelays == {0, 250, 900, -1}
\* ms a server that honours SIGTERM takes to exit (less than the grace period)
TermExitDelays == {0, 3000}
\* ms a server killed by SIGKILL takes to exit once the 200 ms pause is over
KillExitDelays == {0, 300}
\* round trip of a probe, ms
ProbeLatencies == {0, 600}

Running == supState = "running"

(***************************************************************************)
(* Readiness prober of the flexible runner (lines 146-169).                *)
(***************************************************************************)
\* isReady taking any answer for readiness (res.ok not looked at)
isReadyAnyAnswer == srvState = "running"

\* isReady: the probe issued at probeAt is answered with an ok status
isReady == /\ srvState = "running"
           /\ srvReadyAt >= 0
           /\ TLeq(Ms(srvReadyAt), probeAt)

\* LoopCheck reporting the timeout as a success to cleanup
LoopCheckExitZero(t, a, h) ==
  /\ now' = t
  /\ attempt' = a
  /\ IF Elapsed(t) < SERVER_TIMEOUT_MS
     THEN /\ probes' = probes + 1
          /\ probeAt' = t
          /\ wfs' = "running"
          /\ pc' = "wfs_probe"
          /\ hist' = h
          /\ UNCHANGED <<cleaned, cleanCode, cleanPc, cleanElapsed, supState, exitCode,
                         termsSent, killSent, staleKills>>
     ELSE /\ wfs' = "timeout"
          /\ pc' = "returned"
          /\ cleanup(0, "timeout", TRUE, h)
          /\ UNCHANGED <<probes, probeAt>>

\* the loop test of line 158 at time t with attempt counter a, and what follows:
\* the next probe is issued, or the timeout error is thrown and caught at
\* line 261, where main returns cleanup(1)
LoopCheck(t, a, h) ==
  /\ now' = t
  /\ attempt' = a
  /\ IF Elapsed(t) < SERVER_TIMEOUT_MS
     THEN /\ probes' = probes + 1
          /\ probeAt' = t
          /\ wfs' = "running"
          /\ pc' = "wfs_probe"
          /\ hist' = h
          /\ UNCHANGED <<cleaned, cleanCode, cleanPc, cleanElapsed, supState, exitCode,
                         termsSent, killSent, staleKills>>
     ELSE /\ wfs' = "timeout"
          /\ pc' = "returned"
          /\ cleanup(1, "timeout", TRUE, h)
          /\ UNCHANGED <<probes, probeAt>>

(***************************************************************************)
(* main (lines 219-282).                                                   *)
(***************************************************************************)
\* ServeStep with the exception of the server spawn escaping main's try block
ServeStepThrowEscapes(h) ==
  IF directMode /\ ~HasServe
  THEN /\ cleanup(1, "no_serve", TRUE, h)
       /\ pc' = "returned"
       /\ UNCHANGED <<serverChild, srvState, srvIgnoresTerm, srvReadyAt>>
  ELSE \E ok \in spawnChild(IF directMode THEN SERVE_CMD ELSE TASK_CMD) :
         IF ok
         THEN /\ serverChild' = "child"
              /\ srvState' = "running"
              /\ \E ig \in BOOLEAN : srvIgnoresTerm' = ig
              /\ \E d \in ReadyDelays : srvReadyAt' = d
              /\ pc' = "spawned"
              /\ hist' = [h EXCEPT !.unheard = TRUE]
              /\ UNCHANGED <<cleaned, cleanCode, cleanPc, cleanElapsed, supState,
                             exitCode, termsSent, killSent, staleKills>>
         ELSE /\ supState' = "crashed"
              /\ exitCode' = 1
              /\ pc' = "returned"
              /\ hist' = [h EXCEPT !.threw = TRUE]
              /\ UNCHANGED <<cleaned, cleanCode, cleanPc, cleanElapsed, termsSent,
                             killSent, staleKills, serverChild, srvState,
                             srvIgnoresTerm, srvReadyAt>>

\* lines 236-246: the serve command is checked and the server spawned
ServeStep(h) ==
  IF directMode /\ ~HasServe
  THEN /\ cleanup(1, "no_serve", TRUE, h)
       /\ pc' = "returned"
       /\ UNCHANGED <<serverChild, srvState, srvIgnoresTerm, srvReadyAt>>
  ELSE \E ok \in spawnChild(IF directMode THEN SERVE_CMD ELSE TASK_CMD) :
         IF ok
         THEN /\ serverChild' = "child"
              /\ srvState' = "running"
              /\ \E ig \in BOOLEAN : srvIgnoresTerm' = ig
              /\ \E d \in ReadyDelays : srvReadyAt' = d
              /\ pc' = "spawned"
              /\ hist' = [h EXCEPT !.unheard = TRUE]
              /\ UNCHANGED <<cleaned, cleanCode, cleanPc, cleanElapsed, supState,
                             exitCode, termsSent, killSent, staleKills>>
         ELSE /\ cleanup(1, "exception", TRUE, [h EXCEPT !.threw = TRUE])
              /\ pc' = "returned"
              /\ UNCHANGED <<serverChild, srvState, srvIgnoresTerm, srvReadyAt>>

\* lines 220-228: up to the await of the build, or on to the serve step
MainStart ==
  /\ Running
  /\ pc = "start"
  /\ IF directMode /\ HasBuild
     THEN \E ok \in spawnChild(BUILD_CMD) :
            IF ok
            THEN /\ buildState' = "running"
                 /\ pc' = "build_wait"
                 /\ hist' = [hist EXCEPT !.unheard = TRUE]
                 /\ UNCHANGED <<cleaned, cleanCode, cleanPc, cleanElapsed, supState,
                                exitCode, termsSent, killSent, staleKills, serverChild,
                                srvState, srvIgnoresTerm, srvReadyAt>>
            ELSE /\ cleanup(1, "exception", TRUE, [hist EXCEPT !.threw = TRUE])
                 /\ pc' = "returned"
                 /\ UNCHANGED <<buildState, serverChild, srvState, srvIgnoresTerm,
                                srvReadyAt>>
     ELSE /\ ServeStep(hist)
          /\ UNCHANGED buildState
  /\ UNCHANGED <<cfgVars, listeners, testState, wfsVars, signals>>

\* BuildDone going on to the serve step whatever the build's status
BuildDoneIgnoresFailure ==
  /\ Running
  /\ pc = "build_wait"
  /\ buildState \in {"ok", "failed"}
  /\ ServeStep(hist)
  /\ UNCHANGED <<cfgVars, listeners, buildState, testState, wfsVars, signals>>

\* lines 228-234: the build has finished
BuildDone ==
  /\ Running
  /\ pc = "build_wait"
  /\ buildState \in {"ok", "failed"}
  /\ IF buildState = "failed"
     THEN /\ cleanup(1, "build_failed", TRUE, hist)
          /\ pc' = "returned"
          /\ UNCHANGED <<serverChild, srvState, srvIgnoresTerm, srvReadyAt>>
     ELSE ServeStep(hist)
  /\ UNCHANGED <<cfgVars, listeners, buildState, testState, wfsVars, signals>>

\* lines 248-260: the listeners are installed and waitForServer starts
InstallListeners ==
  /\ Running
  /\ pc = "spawned"
  /\ listeners' = TRUE
  /\ LoopCheck(Ms(0), 0, hist)
  /\ UNCHANGED <<cfgVars, serverChild, buildState, srvState, srvIgnoresTerm, srvReadyAt,
                 testState, signals>>

\* lines 159-164 and 267-269: a probe has returned
ProbeReturn ==
  /\ Running
  /\ pc = "wfs_probe"
  /\ attempt < MaxAttempt
  /\ now' = TAdd(now, Ms(latencyMs))
  /\ IF isReady
     THEN /\ wfs' = "ready"
          /\ \E ok \in spawnChild(TEST_CMD) :
               IF ok
               THEN /\ testState' = "running"
                    /\ pc' = "test_wait"
                    /\ hist' = [hist EXCEPT !.lateTest = cleaned]
                    /\ UNCHANGED <<cleaned, cleanCode, cleanPc, cleanElapsed, supState,
                                   exitCode, termsSent, killSent, staleKills>>
               ELSE /\ cleanup(1, "exception", TRUE, [hist EXCEPT !.threw = TRUE])
                    /\ pc' = "returned"
                    /\ UNCHANGED testState
     ELSE /\ pc' = "wfs_sleep"
          /\ UNCHANGED <<wfs, testState, hist, cleaned, cleanCode, cleanPc, cleanElapsed,
                         supState, exitCode, termsSent, killSent, staleKills>>
  /\ UNCHANGED <<cfgVars, listeners, serverChild, buildState, srvState, srvIgnoresTerm,
                 srvReadyAt, attempt, probes, probeAt, signals>>

\* lines 164-165 and 158: the backoff sleep is over
SleepDone ==
  /\ Running
  /\ pc = "wfs_sleep"
  /\ LoopCheck(TAdd(now, BackoffWait(attempt)), attempt + 1, hist)
  /\ UNCHANGED <<cfgVars, listeners, serverChild, buildState, srvState, srvIgnoresTerm,
                 srvReadyAt, testState, signals>>

\* TestDone reporting success whatever the test status
TestDoneAlwaysZero ==
  /\ Running
  /\ pc = "test_wait"
  /\ testState \in {"passed", "failed"}
  /\ cleanup(0, "test_done", TRUE, hist)
  /\ pc' = "returned"
  /\ UNCHANGED <<cfgVars, listeners, serverChild, buildState, srvState, srvIgnoresTerm,
                 srvReadyAt, testState, wfsVars, signals>>

\* lines 269-277: the test process has exited
TestDone ==
  /\ Running
  /\ pc = "test_wait"
  /\ testState \in {"passed", "failed"}
  /\ cleanup(IF testState = "passed" THEN 0 ELSE 1, "test_done", TRUE, hist)
  /\ pc' = "returned"
  /\ UNCHANGED <<cfgVars, listeners, serverChild, buildState, srvState, srvIgnoresTerm,
                 srvReadyAt, testState, wfsVars, signals>>

(***************************************************************************)
(* The rest of the termination sequence (lines 190-216).                   *)
(***************************************************************************)
\* RaceStatus with cleanup resetting the handle once the server has exited
RaceStatusClearsHandle ==
  /\ Running
  /\ cleanPc = "race"
  /\ srvState = "exited"
  /\ serverChild' = "null"
  /\ \E d \in (IF termsSent > 0 THEN TermExitDelays ELSE {0}) :
       cleanElapsed' = cleanElapsed + d
  /\ AfterRaceExited(hist)
  /\ UNCHANGED <<cfgVars, pc, listeners, cleaned, cleanCode, buildState,
                 srvState, srvIgnoresTerm, srvReadyAt, termsSent, testState, wfsVars,
                 signals>>

\* Promise.race resolved by the server's status: at once if the server had
\* exited before cleanup began, else when the server honours the SIGTERM
RaceStatus ==
  /\ Running
  /\ cleanPc = "race"
  /\ srvState = "exited"
  /\ \E d \in (IF termsSent > 0 THEN TermExitDelays ELSE {0}) :
       cleanElapsed' = cleanElapsed + d
  /\ AfterRaceExited(hist)
  /\ UNCHANGED <<cfgVars, pc, listeners, serverChild, cleaned, cleanCode, buildState,
                 srvState, srvIgnoresTerm, srvReadyAt, termsSent, testState, wfsVars,
                 signals>>

\* GraceTimer without the SIGKILL
GraceTimerNoKill ==
  /\ Running
  /\ cleanPc = "race"
  /\ srvState = "running"
  /\ killSent' = killSent
  /\ cleanPc' = "pause"
  /\ cleanElapsed' = cleanElapsed + GraceMs
  /\ hist' = [hist EXCEPT !.raceWon = "timer"]
  /\ UNCHANGED <<cfgVars, pc, listeners, serverChild, cleaned, cleanCode, supState,
                 exitCode, buildState, srvState, srvIgnoresTerm, srvReadyAt, termsSent,
                 staleKills, testState, wfsVars, signals>>

\* Promise.race resolved by the 5000 ms timer: SIGKILL by pid, then the pause
GraceTimer ==
  /\ Running
  /\ cleanPc = "race"
  /\ srvState = "running"
  /\ killSent' = TRUE
  /\ cleanPc' = "pause"
  /\ cleanElapsed' = cleanElapsed + GraceMs
  /\ hist' = [hist EXCEPT !.raceWon = "timer"]
  /\ UNCHANGED <<cfgVars, pc, listeners, serverChild, cleaned, cleanCode, supState,
                 exitCode, buildState, srvState, srvIgnoresTerm, srvReadyAt, termsSent,
                 staleKills, testState, wfsVars, signals>>

\* the 200 ms pause is over; await serverChild.status (line 206)
PauseDone ==
  /\ Running
  /\ cleanPc = "pause"
  /\ cleanElapsed' = cleanElapsed + KillPauseMs
  /\ cleanPc' = "final"
  /\ hist' = [hist EXCEPT !.lateExit = (srvState = "running")]
  /\ UNCHANGED <<supState, exitCode>>
  /\ UNCHANGED <<cfgVars, pc, listeners, serverChild, cleaned, cleanCode, buildState,
                 srvState, srvIgnoresTerm, srvReadyAt, termsSent, killSent, staleKills,
                 testState, wfsVars, signals>>

\* the final status has resolved (after however long a server still running at
\* line 206 took to exit); Deno.exit(exitCode)
FinalStatus ==
  /\ Running
  /\ cleanPc = "final"
  /\ srvState = "exited"
  /\ \E d \in (IF hist.lateExit THEN KillExitDelays ELSE {0}) :
       cleanElapsed' = cleanElapsed + d
  /\ ExitFirst(cleanCode, hist)
  /\ UNCHANGED <<cfgVars, pc, listeners, serverChild, cleaned, cleanCode,
                 buildState, srvState, srvIgnoresTerm, srvReadyAt, termsSent, killSent,
                 staleKills, testState, wfsVars, signals>>

(***************************************************************************)
(* Signals (lines 251-256).                                                *)
(***************************************************************************)
\* a SIGINT or SIGTERM reaches the supervisor: sigHandler if the listeners are
\* installed, the default disposition (the process is terminated) otherwise
sigHandler ==
  /\ Running
  /\ signals < MaxSignals
  /\ signals' = signals + 1
  /\ IF listeners
     THEN cleanup(1, "signal", FALSE, hist)
     ELSE /\ supState' = "killed"
          /\ UNCHANGED <<cleaned, cleanCode, cleanPc, cleanElapsed, exitCode, termsSent,
                         killSent, staleKills, hist>>
  /\ UNCHANGED <<cfgVars, pc, listeners, serverChild, buildState, srvState,
                 srvIgnoresTerm, srvReadyAt, testState, wfsVars>>

(***************************************************************************)
(* The children.                                                           *)
(***************************************************************************)
BuildFinishes ==
  /\ Running
  /\ buildState = "running"
  /\ \E r \in {"ok", "failed"} : buildState' = r
  /\ UNCHANGED <<cfgVars, supVars, srvState, srvIgnoresTerm, srvReadyAt, termsSent,
                 killSent, staleKills, testState, wfsVars, signals, hist>>

TestFinishes ==
  /\ Running
  /\ testState = "running"
  /\ \E r \in {"passed", "failed"} : testState' = r
  /\ UNCHANGED <<cfgVars, supVars, buildState, srvState, srvIgnoresTerm, srvReadyAt,
                 termsSent, killSent, staleKills, wfsVars, signals, hist>>

ServerExit ==
  /\ srvState' = "exited"
  /\ UNCHANGED <<cfgVars, supVars, buildState, srvIgnoresTerm, srvReadyAt, termsSent,
                 killSent, staleKills, testState, wfsVars, signals, hist>>

\* the server exits on its own (crash, or the operator's signal reached it too)
ServerCrash ==
  /\ Running
  /\ srvState = "running"
  /\ termsSent = 0
  /\ ~killSent
  /\ ServerExit

\* the server honours SIGTERM
ServerDiesOfTerm ==
  /\ Running
  /\ srvState = "running"
  /\ termsSent > 0
  /\ ~srvIgnoresTerm
  /\ ServerExit

\* SIGKILL cannot be ignored
ServerDiesOfKill ==
  /\ Running
  /\ srvState = "running"
  /\ killSent
  /\ ServerExit

(***************************************************************************)
(* The flexible runner.                                                    *)
(***************************************************************************)
EnvKeys == {"BUILD_CMD", "SERVE_CMD", "TASK_CMD", "TEST_CMD"}

Environs ==
  { e \in [EnvKeys -> CmdEnvValues] : e["TEST_CMD"] \in TestEnvValues }

Init ==
  /\ environ \in Environs
  /\ envTimeout \in TimeoutEnvValues
  /\ latencyMs \in ProbeLatencies
  /\ pc = "start"
  /\ listeners = FALSE
  /\ serverChild = "null"
  /\ cleaned = FALSE
  /\ cleanPc = "idle"
  /\ cleanCode = -1
  /\ cleanElapsed = 0
  /\ supState = "running"
  /\ exitCode = -1
  /\ buildState = "none"
  /\ srvState = "none"
  /\ srvIgnoresTerm = FALSE
  /\ srvReadyAt = -1
  /\ termsSent = 0
  /\ killSent = FALSE
  /\ staleKills = 0
  /\ testState = "none"
  /\ now = Ms(0)
  /\ attempt = 0
  /\ probes = 0
  /\ probeAt = Ms(0)
  /\ wfs = "none"
  /\ signals = 0
  /\ hist = InitHist

Next ==
  \/ MainStart
  \/ BuildDone
  \/ InstallListeners
  \/ ProbeReturn
  \/ SleepDone
  \/ TestDone
  \/ RaceStatus
  \/ GraceTimer
  \/ PauseDone
  \/ FinalStatus
  \/ sigHandler
  \/ BuildFinishes
  \/ TestFinishes
  \/ ServerCrash
  \/ ServerDiesOfTerm
  \/ ServerDiesOfKill

Spec == Init /\ [][Next]_vars

\* The event loop runs every continuation of cleanup that is ready and its
\* timers fire; a server that was sent a signal it does not ignore exits.
\* Signals, crashes and the pace of the build and of the tests are never forced.
CleanupStep == RaceStatus \/ GraceTimer \/ PauseDone \/ FinalStatus
ServerDies == ServerDiesOfTerm \/ ServerDiesOfKill

LiveSpec == Spec /\ WF_vars(CleanupStep) /\ WF_vars(ServerDies)

(***************************************************************************)
(* The simple runner (lines 12-88): runTests with its own waitForServer.   *)
(***************************************************************************)
SimpleReadyDelays == {0, 900, 2500, -1}

\* Deno.exit(1) inside the try or the catch block: the process ends there and
\* the finally block does not run
SimpleExit(code) ==
  /\ supState' = "exited"
  /\ exitCode' = code
  /\ UNCHANGED termsSent

\* an exception leaves runTests: the top-level await rejects
SimpleUncaught ==
  /\ supState' = "crashed"
  /\ exitCode' = 1
  /\ UNCHANGED termsSent

\* the loop test of line 29 at time t: the next probe, or the error of line 38,
\* caught at line 72
SimpleLoopCheck(t) ==
  /\ now' = t
  /\ IF Elapsed(t) < SERVER_TIMEOUT
     THEN /\ probes' = probes + 1
          /\ probeAt' = t
          /\ wfs' = "running"
          /\ pc' = "s_probe"
          /\ UNCHANGED <<supState, exitCode, termsSent>>
     ELSE /\ wfs' = "timeout"
          /\ pc' = "s_caught"
          /\ SimpleExit(1)
          /\ UNCHANGED <<probes, probeAt>>

\* lines 42-54 and 27-30: the server is spawned and the first probe issued
runTestsStart ==
  /\ Running
  /\ pc = "s_start"
  /\ \E ok \in spawnChild(<<"deno", "task", "dev">>) :
       IF ok
       THEN /\ srvState' = "running"
            /\ \E ig \in BOOLEAN : srvIgnoresTerm' = ig
            /\ \E d \in SimpleReadyDelays : srvReadyAt' = d
            /\ SimpleLoopCheck(Ms(0))
       ELSE /\ SimpleUncaught
            /\ pc' = "s_uncaught"
            /\ UNCHANGED <<srvState, srvIgnoresTerm, srvReadyAt, wfsVars>>
  /\ UNCHANGED <<cfgVars, listeners, serverChild, cleaned, cleanPc, cleanCode,
                 cleanElapsed, buildState, killSent, staleKills, testState, attempt,
                 signals, hist>>

\* lines 30-34 and 57-64: a probe has returned
SimpleProbeReturn ==
  /\ Running
  /\ pc = "s_probe"
  /\ now' = TAdd(now, Ms(latencyMs))
  /\ IF isReady
     THEN /\ wfs' = "ready"
          /\ \E ok \in spawnChild(<<"deno", "task", "test:e2e">>) :
               IF ok
               THEN /\ testState' = "running"
                    /\ pc' = "s_test"
                    /\ UNCHANGED <<supState, exitCode, termsSent>>
               ELSE /\ SimpleExit(1)
                    /\ pc' = "s_caught"
                    /\ UNCHANGED testState
     ELSE /\ pc' = "s_sleep"
          /\ UNCHANGED <<wfs, testState, supState, exitCode, termsSent>>
  /\ UNCHANGED <<cfgVars, listeners, serverChild, cleaned, cleanPc, cleanCode,
                 cleanElapsed, buildState, srvState, srvIgnoresTerm, srvReadyAt, killSent,
                 staleKills, attempt, probes, probeAt, signals, hist>>

\* lines 34-35 and 29: delay(1000) is over
SimpleSleepDone ==
  /\ Running
  /\ pc = "s_sleep"
  /\ SimpleLoopCheck(TAdd(now, Ms(SimpleDelayMs)))
  /\ UNCHANGED <<cfgVars, listeners, serverChild, cleaned, cleanPc, cleanCode,
                 cleanElapsed, buildState, srvState, srvIgnoresTerm, srvReadyAt, killSent,
                 staleKills, testState, attempt, signals, hist>>

\* lines 64-83: the test process has exited
SimpleTestDone ==
  /\ Running
  /\ pc = "s_test"
  /\ testState \in {"passed", "failed"}
  /\ IF testState = "failed"
     THEN /\ SimpleExit(1)
          /\ pc' = "s_failed"
     ELSE \* the finally block: kill("SIGTERM"), which throws if the server has
          \* already exited, then await serverProcess.status
          IF srvState = "running"
          THEN /\ termsSent' = termsSent + 1
               /\ pc' = "s_final"
               /\ UNCHANGED <<supState, exitCode>>
          ELSE /\ SimpleUncaught
               /\ pc' = "s_uncaught"
  /\ UNCHANGED <<cfgVars, listeners, serverChild, cleaned, cleanPc, cleanCode,
                 cleanElapsed, buildState, srvState, srvIgnoresTerm, srvReadyAt, killSent,
                 staleKills, testState, wfsVars, signals, hist>>

\* line 82 resolves: runTests returns and the script ends
SimpleFinal ==
  /\ Running
  /\ pc = "s_final"
  /\ srvState = "exited"
  /\ supState' = "exited"
  /\ exitCode' = 0
  /\ pc' = "s_done"
  /\ UNCHANGED <<cfgVars, listeners, serverChild, cleaned, cleanPc, cleanCode,
                 cleanElapsed, buildState, srvState, srvIgnoresTerm, srvReadyAt, termsSent,
                 killSent, staleKills, testState, wfsVars, signals, hist>>

SimpleInit ==
  /\ environ = [k \in EnvKeys |-> Unset]
  /\ envTimeout = [set |-> FALSE, val |-> 0]
  /\ latencyMs \in ProbeLatencies
  /\ pc = "s_start"
  /\ listeners = FALSE
  /\ serverChild = "null"
  /\ cleaned = FALSE
  /\ cleanPc = "idle"
  /\ cleanCode = -1
  /\ cleanElapsed = 0
  /\ supState = "running"
  /\ exitCode = -1
  /\ buildState = "none"
  /\ srvState = "none"
  /\ srvIgnoresTerm = FALSE
  /\ srvReadyAt = -1
  /\ termsSent = 0
  /\ killSent = FALSE
  /\ staleKills = 0
  /\ testState = "none"
  /\ now = Ms(0)
  /\ attempt = 0
  /\ probes = 0
  /\ probeAt = Ms(0)
  /\ wfs = "none"
  /\ signals = 0
  /\ hist = InitHist

SimpleNext ==
  \/ runTestsStart
  \/ SimpleProbeReturn
  \/ SimpleSleepDone
  \/ SimpleTestDone
  \/ SimpleFinal
  \/ sigHandler
  \/ TestFinishes
  \/ ServerCrash
  \/ ServerDiesOfTerm

SimpleSpec == SimpleInit /\ [][SimpleNext]_vars


(***************************************************************************)
(* Properties.                                                             *)
(***************************************************************************)
ServerSpawned == srvState # "none"
InFlight == cleanPc \in {"race", "pause", "final"}

\* C1: in the flexible runner, whenever the supervisor has reached Deno.exit
\* after a server child was spawned, that server child has already exited.
C1_NoServerOutlivesSupervisor ==
  (supState = "exited" /\ ServerSpawned) => srvState = "exited"

\* C2: the supervisor exits with the exit code passed to the first cleanup
\* invocation; a later invocation cleanup(b) never makes it exit with b.
C2_ExitsWithFirstCode ==
  supState = "exited" => exitCode = cleanCode

\* C3: cleaned goes from false to true exactly once, on the first invocation of
\* cleanup, and is never reset; the termination sequence is entered at most
\* once and the server is sent SIGTERM by the supervisor at most once.
C3_CleanupIdempotent ==
  /\ [][ /\ (cleaned => cleaned')
         /\ (cleaned' # cleaned => (hist.calls = 0 /\ hist'.calls = 1))
         /\ (hist'.calls > hist.calls /\ hist.calls >= 1 =>
               /\ cleaned /\ cleaned'
               /\ hist'.seq = hist.seq
               /\ termsSent' = termsSent) ]_vars
  /\ [](cleaned <=> hist.calls >= 1)
  /\ [](hist.seq <= 1 /\ termsSent <= 1)

\* C3 witness: cleanup was invoked twice, the sequence ran once, one SIGTERM
C3_Witness ==
  /\ hist.calls = 2
  /\ hist.seq = 1
  /\ termsSent = 1
  /\ cleaned

\* C4: in the simple runner, on every exit path (tests pass, tests fail,
\* waitForServer throws) the spawned server was sent SIGTERM and its exit
\* status was awaited before the runner terminated.
C4_SimpleTeardownOnEveryPath ==
  (supState = "exited" /\ (testState \in {"passed", "failed"} \/ wfs = "timeout"))
    => (termsSent >= 1 /\ pc = "s_done")

\* the run so far is a full success: build ok (when run), a probe succeeded,
\* the test process exited successfully
FullSuccess ==
  /\ (directMode /\ HasBuild) => buildState = "ok"
  /\ wfs = "ready"
  /\ testState = "passed"

\* a failure the main flow has seen
SeenFailure ==
  \/ buildState = "failed" /\ pc = "returned"
  \/ hist.trigger = "no_serve"
  \/ wfs = "timeout"
  \/ hist.threw
  \/ testState = "failed" /\ pc = "returned"

\* C5: the flexible runner exits with 0 only on full success, and with 1
\* whenever the build failed, the serve command is missing in direct mode,
\* readiness timed out, a spawn threw, or the test process failed.
C5_ExitCode ==
  supState = "exited" =>
    /\ exitCode \in {0, 1}
    /\ exitCode = 0 => FullSuccess
    /\ SeenFailure => exitCode = 1

\* C5 witness: a run that exits with 0 after build, readiness and tests
C5_Witness ==
  /\ supState = "exited"
  /\ exitCode = 0
  /\ buildState = "ok"
  /\ testState = "passed"


CeilDiv(a, b) == (a + b - 1) \div b

WfsEnded == wfs \in {"ready", "timeout"}

\* the server answers every probe issued at or after srvReadyAt, which lies
\* before the timeout
ReadyInTime ==
  /\ srvState = "running"
  /\ srvReadyAt >= 0
  /\ srvReadyAt < SERVER_TIMEOUT_MS

\* C6: for every readiness delay D and timeout T with 0 <= D < T,
\* waitForServer returns successfully, having issued at least one probe and at
\* most ceil(T / 200) probes.  (Stated for instantaneous probes, the case most
\* favourable to the claim.)
C6_ReadyBeforeTimeoutSucceeds ==
  (latencyMs = 0 /\ WfsEnded /\ ReadyInTime) =>
    /\ wfs = "ready"
    /\ probes >= 1
    /\ probes <= CeilDiv(SERVER_TIMEOUT_MS, BaseDelayMs)

\* D is early enough for a probe to be issued at or after D and before T:
\* D = 0, or D + round trip + min(200 + D/4, 2000) <= T
ProbeGuaranteed ==
  \/ srvReadyAt = 0
  \/ GrowthNum * srvReadyAt + GrowthDen * (latencyMs + BaseDelayMs)
       <= GrowthDen * SERVER_TIMEOUT_MS
  \/ srvReadyAt + latencyMs + CapDelayMs <= SERVER_TIMEOUT_MS

\* C6 (amended): with 0 <= D < T, waitForServer returns successfully exactly
\* when its last probe was issued at or after D, which is certain when
\* ProbeGuaranteed holds; it issues at least one probe and at most
\* ceil(T / 200) probes.
C6_ReadyAtAProbeSucceeds ==
  (WfsEnded /\ ReadyInTime) =>
    /\ wfs = "ready" <=> TLeq(Ms(srvReadyAt), probeAt)
    /\ ProbeGuaranteed => wfs = "ready"
    /\ probes >= 1
    /\ probes <= CeilDiv(SERVER_TIMEOUT_MS, BaseDelayMs)

\* C6 witness: a server that became ready after a delay was found ready by a
\* later probe
C6_Witness ==
  /\ wfs = "ready"
  /\ srvReadyAt > 0
  /\ probes >= 2
  /\ srvState = "running"

\* the backoff interval slept before the loop test that threw the timeout
LastWait == BackoffWait(attempt - 1)

\* the probing phase is never stuck: a probe in flight returns, a sleep ends
ProbingNeverStuck ==
  /\ (Running /\ pc = "wfs_probe") => ENABLED ProbeReturn
  /\ (Running /\ pc = "wfs_sleep") => ENABLED SleepDone

\* C7: if every probe fails, waitForServer throws its timeout error after no
\* more than timeoutMs plus one backoff interval, main then invokes cleanup
\* exactly once with a non-zero exit code, and the server receives a
\* termination signal.
C7_TimeoutThenCleanup ==
  /\ ProbingNeverStuck
  /\ wfs = "timeout" =>
       /\ TLeq(now, TAdd(Ms(SERVER_TIMEOUT_MS), LastWait))
       /\ hist.mainCalls = 1
       /\ hist.mainCode # 0
       /\ termsSent >= 1

\* C7 (amended): the bound on the elapsed time is timeoutMs plus one probe
\* round trip plus one backoff interval, and the server receives SIGTERM
\* unless it has already exited.
C7_TimeoutBoundWithRoundTrip ==
  /\ ProbingNeverStuck
  /\ wfs = "timeout" =>
       /\ TLeq(now, TAdd(TAdd(Ms(SERVER_TIMEOUT_MS), Ms(latencyMs)), LastWait))
       /\ hist.mainCalls = 1
       /\ hist.mainCode = 1
       /\ \/ termsSent = 1
          \/ termsSent = 0 /\ srvState = "exited"

\* C7 witness: a server that never answers, slow probes, the timeout, one
\* SIGTERM and the exit of the cleanup main started
C7_Witness ==
  /\ wfs = "timeout"
  /\ srvReadyAt = -1
  /\ latencyMs > 0
  /\ termsSent = 1
  /\ hist.trigger = "timeout"
  /\ supState = "exited"

AnyChildSpawned == buildState # "none" \/ srvState # "none" \/ testState # "none"

\* C8: the signal listeners are installed before any child process is spawned,
\* so a signal delivered in any phase of the run invokes cleanup (and never
\* ends the supervisor by the default disposition).
C8_ListenersBeforeChildren ==
  /\ AnyChildSpawned => listeners
  /\ supState # "killed"

\* C9: when the grace timer wins the race, SIGKILL is sent to the server's pid
\* and cleanup then reaches Deno.exit within the grace period plus the pause,
\* never remaining blocked on the server's status.
C9_ForcefulEscalation ==
  /\ hist.raceWon = "timer" => killSent
  /\ (supState = "exited" /\ hist.exitBy = "first")
       => cleanElapsed <= GraceMs + KillPauseMs
  /\ (cleanPc = "final" /\ hist.raceWon = "timer") => srvState = "exited"

\* C9 (amended): when the grace timer wins the race, SIGKILL is sent to the
\* server's pid; after the 200 ms pause cleanup awaits the server's status and
\* reaches Deno.exit once the killed server has exited: never before the grace
\* period plus the pause, later by the time the server takes to exit, and
\* always eventually.
C9_EscalationThenStatus ==
  /\ [](hist.raceWon = "timer" => killSent)
  /\ []((supState = "exited" /\ hist.exitBy = "first" /\ hist.raceWon = "timer") =>
          /\ srvState = "exited"
          /\ cleanElapsed >= GraceMs + KillPauseMs
          /\ ~hist.lateExit => cleanElapsed = GraceMs + KillPauseMs)
  /\ []((Running /\ cleanPc = "final" /\ srvState = "exited") => ENABLED FinalStatus)
  /\ (hist.raceWon = "timer") ~> (supState = "exited")

\* C9 witness: a server that ignores SIGTERM was killed after the grace period,
\* took longer than the pause to exit, and the cleanup that killed it exited
C9_Witness ==
  /\ srvIgnoresTerm
  /\ hist.raceWon = "timer"
  /\ hist.lateExit
  /\ killSent
  /\ supState = "exited"
  /\ hist.exitBy = "first"
  /\ cleanElapsed > GraceMs + KillPauseMs

Probing == pc \in {"wfs_probe", "wfs_sleep"}

\* the order of the main flow's steps
MainOrder ==
  /\ ServerSpawned => ((directMode /\ HasBuild) => buildState = "ok")
  /\ probes > 0 => ServerSpawned
  /\ testState # "none" => wfs = "ready"
  /\ buildState = "running" => (~ServerSpawned /\ pc = "build_wait")
  /\ Probing => testState = "none"
  /\ supState = "exited" => cleaned

\* C10: build, server start, first probe, test, cleanup and termination are
\* strictly ordered; cleanup begins only after the test process has completed,
\* the probe has timed out, or the build has failed; no step overlaps an
\* earlier one.  (Stated for the runs in which no spawn throws and the serve
\* command is present: the runs whose steps the claim lists.)
C10_StrictOrdering ==
  (~hist.threw /\ hist.trigger # "no_serve") =>
    /\ MainOrder
    /\ cleaned => (testState \in {"passed", "failed"} \/ wfs = "timeout"
                     \/ buildState = "failed")
    /\ InFlight => pc = "returned"

\* what the first cleanup invocation was called for has happened
TriggerHappened ==
  /\ cleaned <=> hist.trigger # "none"
  /\ hist.trigger = "test_done" => testState \in {"passed", "failed"}
  /\ hist.trigger = "timeout" => wfs = "timeout"
  /\ hist.trigger = "build_failed" => buildState = "failed"
  /\ hist.trigger = "no_serve" => (directMode /\ ~HasServe /\ ~ServerSpawned)
  /\ hist.trigger = "exception" => hist.threw
  /\ hist.trigger = "signal" => (signals >= 1 /\ listeners)

\* C10 (amended): cleanup also begins when the serve command is missing, when a
\* spawn throws and when a signal is handled; a cleanup begun by a signal runs
\* while the main flow is still probing or awaiting the test.
C10_OrderingWithAllTriggers ==
  /\ MainOrder
  /\ TriggerHappened
  /\ (InFlight /\ pc # "returned") => hist.trigger = "signal"

\* C10 witness: build, server, probe, test, cleanup, exit, in this order
C10_Witness ==
  /\ buildState = "ok"
  /\ wfs = "ready"
  /\ hist.trigger = "test_done"
  /\ hist.exitBy = "first"
  /\ supState = "exited"
  /\ srvState = "exited"

\* C11: once the build has exited non-zero, no server and no test process is
\* ever spawned, no probe is issued, the server handle stays unset, the main
\* flow's next step is the cleanup(1) of line 231, which exits at once, and
\* the supervisor's exit code is 1.
C11_BuildFailureAborts ==
  /\ [](buildState = "failed" =>
          /\ srvState = "none"
          /\ testState = "none"
          /\ serverChild = "null"
          /\ probes = 0
          /\ termsSent = 0)
  /\ []((buildState = "failed" /\ supState = "exited") => exitCode = 1)
  /\ []((buildState = "failed" /\ Running) => (pc = "build_wait" /\ ENABLED BuildDone))
  /\ [][ (buildState = "failed" /\ pc = "build_wait" /\ pc' # pc) =>
           (supState' = "exited" /\ exitCode' = 1 /\ hist'.trigger = "build_failed") ]_vars

\* C11 witness: the build failed and the supervisor exited with 1, no server
C11_Witness ==
  /\ buildState = "failed"
  /\ hist.trigger = "build_failed"
  /\ supState = "exited"
  /\ exitCode = 1
  /\ srvState = "none"

\* C12: in direct mode with SERVE_CMD resolving to empty, no child process at
\* all is spawned (no build, no server, no test process) and the supervisor's
\* exit code is 1.
C12_ConfigErrorStartsNothing ==
  (directMode /\ ~HasServe) =>
    /\ buildState = "none"
    /\ srvState = "none"
    /\ testState = "none"
    /\ supState = "exited" => exitCode = 1

\* the variable is set to a value that is non-empty after trimming
SetNonEmpty(k) == environ[k].set /\ Trim(environ[k].val) # <<>>

\* C13: the runner is in direct mode if and only if BUILD_CMD or SERVE_CMD is
\* set to a value that is non-empty after trimming; with both unset, or both
\* empty or blank, it is in task mode.  (Looked at once the main flow has
\* taken its branch on directMode, line 224, and spawned a child.)
C13_ModeSelection ==
  AnyChildSpawned =>
    (directMode <=> (SetNonEmpty("BUILD_CMD") \/ SetNonEmpty("SERVE_CMD")))

NoOverrides == \A k \in EnvKeys : ~environ[k].set

\* the command of the default the header comment documents for TASK_CMD
DenoTaskServe == << <<"deno">>, <<"task">>, <<"serve">> >>

\* C14: with no overrides the runner is in task mode; in task mode no build
\* process is spawned, the server is spawned from TASK_CMD, which defaults to
\* "deno task serve", and the test command runs only after that one server
\* process was spawned.
C14_TaskModeDefault ==
  pc # "start" =>
    /\ NoOverrides => ~directMode
    /\ ~directMode =>
         /\ buildState = "none"
         /\ ~environ["TASK_CMD"].set => TASK_CMD = DenoTaskServe
         /\ testState # "none" => srvState # "none"

\* C15: during cleanup SIGKILL is sent to the server's pid, and the 200 ms
\* pause taken, only when the grace timer won the race; when the server's exit
\* won the race, within the grace period after SIGTERM, no SIGKILL is issued
\* to its pid.
C15_KillOnlyAfterGrace ==
  /\ killSent => hist.raceWon = "timer"
  /\ (hist.raceWon = "status" /\ termsSent = 1) =>
       (staleKills = 0 /\ ~hist.stray /\ cleanPc # "pause")

\* where the spawn that threw was made
ThrewAtBuild == hist.threw /\ directMode /\ HasBuild /\ buildState = "none"
ThrewAtTest == hist.threw /\ wfs = "ready"
ThrewAtServer == hist.threw /\ ~ThrewAtBuild /\ ~ThrewAtTest

\* C16: when the spawn of the build, server or test process throws, the
\* exception is caught in main, which invokes cleanup(1); the supervisor does
\* not crash, it exits, and its exit code is 1.  When the throw is at the
\* server spawn (or before it) the handle stays unset and cleanup signals no
\* process.
C16_SpawnFailureIsFailure ==
  /\ [](hist.threw =>
          /\ cleaned
          /\ pc = "returned"
          /\ hist.mainCalls = 1
          /\ hist.mainCode = 1
          /\ supState \in {"running", "exited"})
  /\ []((hist.threw /\ supState = "exited") => exitCode = 1)
  /\ []((ThrewAtServer \/ ThrewAtBuild) =>
          /\ serverChild = "null"
          /\ srvState = "none"
          /\ termsSent = 0
          /\ ~killSent
          /\ staleKills = 0
          /\ supState = "exited")
  /\ hist.threw ~> (supState = "exited" /\ exitCode = 1)

\* C16 witness: the build succeeded, the server spawn threw, exit code 1
C16_Witness ==
  /\ ThrewAtServer
  /\ buildState = "ok"
  /\ hist.trigger = "exception"
  /\ supState = "exited"
  /\ exitCode = 1

\* serverChild.kill("SIGTERM") threw: the server had exited before cleanup
SigtermThrew == hist.seq = 1 /\ termsSent = 0
\* Deno.kill(pid, "SIGKILL") threw: no such process
SigkillThrew == staleKills > 0 /\ ~hist.stray
CleanupErrorSeen == SigtermThrew \/ SigkillThrew

\* C17: an error raised while signalling a server that has already exited is
\* swallowed, cleanup(c) still reaches Deno.exit, and the supervisor's exit
\* code is c.
C17_CleanupErrorsSwallowed ==
  /\ CleanupErrorSeen => supState \in {"running", "exited"}
  /\ (CleanupErrorSeen /\ supState = "exited") => exitCode = cleanCode

\* C18: serverChild goes from null to a child only by a successful server
\* spawn and is never written again; at most one server process is spawned;
\* no step of cleanup writes the handle.
C18_HandleWrittenOnce ==
  /\ [][ serverChild' # serverChild =>
           /\ serverChild = "null"
           /\ serverChild' = "child"
           /\ srvState = "none"
           /\ srvState' = "running"
           /\ pc' = "spawned" ]_vars
  /\ [][ srvState' # srvState =>
           \/ srvState = "none" /\ srvState' = "running" /\ serverChild' = "child"
           \/ srvState = "running" /\ srvState' = "exited" ]_vars
  /\ [][ (hist'.calls # hist.calls \/ cleanPc' # cleanPc) =>
           serverChild' = serverChild ]_vars
  /\ [](serverChild = "child" <=> srvState # "none")

\* C18 witness: cleanup was invoked twice and ran its sequence to the end; the
\* handle is still the child spawned
C18_Witness ==
  /\ serverChild = "child"
  /\ hist.calls = 2
  /\ hist.raceWon = "timer"
  /\ srvState = "exited"

RECURSIVE Pow(_, _)
Pow(b, e) == IF e = 0 THEN 1 ELSE b * Pow(b, e - 1)

\* 200 * 1.25^n >= 2000, that is 5^n >= 10 * 4^n; 1.25^n grows with n, so the
\* powers are only computed up to the first n at which this holds
RECURSIVE AtCap(_)
AtCap(n) ==
  IF n = 0 THEN FALSE
  ELSE AtCap(n - 1) \/ Pow(5, n) >= (CapDelayMs \div BaseDelayMs) * Pow(4, n)

\* min(200 * 1.25^n, 2000) in closed form: 200 * 5^n / 4^n = 25 * 5^n / 2^(2n-3)
ExactWait(n) ==
  IF AtCap(n) THEN Ms(CapDelayMs)
  ELSE IF n <= 1 THEN Ms((BaseDelayMs * Pow(5, n)) \div Pow(4, n))
  ELSE LET num == 25 * Pow(5, n)
           den == Pow(2, 2 * n - 3)
       IN  [ms |-> num \div den, fr |-> (num % den) * (FracPerMs \div den)]

\* the claimed intervals for every value of the attempt counter, computed once
ExactWaits == [n \in 0..(MaxAttempt + 1) |-> ExactWait(n)]

\* C19: the sleep after the n-th failed probe is min(200 * 1.25^n, 2000) ms,
\* n starting at 0 and growing by one per failed probe; every interval lies
\* in [200, 2000], the intervals never decrease, and once an interval is 2000
\* the next ones are 2000.
C19_BackoffSchedule ==
  /\ [][ (pc = "wfs_sleep" /\ pc' # pc) =>
           /\ attempt' = attempt + 1
           /\ now' = TAdd(now, ExactWaits[attempt]) ]_vars
  /\ [](pc = "wfs_sleep" =>
          /\ attempt = probes - 1
          /\ TLeq(Ms(BaseDelayMs), ExactWaits[attempt])
          /\ TLeq(ExactWaits[attempt], Ms(CapDelayMs))
          /\ TLeq(ExactWaits[attempt], ExactWaits[attempt + 1])
          /\ ExactWaits[attempt] = Ms(CapDelayMs) => ExactWaits[attempt + 1] = Ms(CapDelayMs))

\* C19 witness: the cap was reached and slept at least twice
C19_Witness ==
  /\ pc = "wfs_sleep"
  /\ attempt >= 2
  /\ ExactWait(attempt - 2) = Ms(CapDelayMs)
  /\ TLeq(Ms(DefaultTimeoutMs - CapDelayMs), now)
  /\ wfs = "running"

\* C20: once cleanup has set cleaned the main flow spawns no test process, and
\* when the supervisor terminates no test process it spawned is still running.
C20_NoChildAfterTeardown ==
  /\ ~hist.lateTest
  /\ supState = "exited" => testState # "running"

====
